---- MODULE Spec2Model ----
(***************************************************************************)
(* Model of src/app.py: the Gradio handler generate_candidates and the     *)
(* module-level credential configuration it depends on.                    *)
(*                                                                         *)
(* Text is a sequence of one-character atoms.  "NL" is the line feed,      *)
(* "SP" a blank, "Q" the double quote, "BT" the back-tick.  A column name  *)
(* of the mandated header is abbreviated to one letter:                    *)
(*   N Full Name, R Current Role, L Location, K Key Skills,                *)
(*   P Profile Summary, U Source Profile URL.                              *)
(***************************************************************************)
EXTENDS Integers, Sequences, FiniteSets, TLC

\* ------------------------------------------------------------------ bounds

\* Number of invocations of the handler in one run of the process.
MaxInvocations == 2
\* The wall clock runs from tick 0 to tick MaxTick.
MaxTick == 2
\* Clock ticks per second: datetime.now() is finer than the %S of strftime.
TicksPerSecond == 2

Invocations == 1..MaxInvocations

\* ------------------------------------------------------- python str helpers

NL == "NL"
SP == "SP"
Q == "Q"
BT == "BT"
COMMA == ","

IsSpace(c) == c \in {NL, SP}

Max(a, b) == IF a >= b THEN a ELSE b

RECURSIVE LStrip(_)
LStrip(s) ==
  IF s # <<>> /\ IsSpace(Head(s)) THEN LStrip(Tail(s)) ELSE s

RECURSIVE RStrip(_)
RStrip(s) ==
  IF s # <<>> /\ IsSpace(s[Len(s)]) THEN RStrip(SubSeq(s, 1, Len(s) - 1)) ELSE s

\* str.strip()
Strip(s) == RStrip(LStrip(s))

\* str.startswith(p)
StartsWith(s, p) == Len(s) >= Len(p) /\ SubSeq(s, 1, Len(p)) = p

\* s[lo:-hi] for lo >= 0 and hi > 0
SliceFromToNeg(s, lo, hi) ==
  IF Len(s) - hi <= lo THEN <<>> ELSE SubSeq(s, lo + 1, Len(s) - hi)

\* The literal "```csv" of line 101.
FenceCsv == <<BT, BT, BT, "c", "s", "v">>

\* Lines 101-102: the cleanup of the response text.
Clean(csv_data) ==
  IF StartsWith(Strip(csv_data), FenceCsv)
    THEN Strip(SliceFromToNeg(Strip(csv_data), 6, 3))
    ELSE csv_data

\* ------------------------------------------------------- pandas.read_csv

\* The first position at or after i holding a line feed, Len(s) + 1 if none.
RECURSIVE LineEnd(_, _)
LineEnd(s, i) ==
  IF i > Len(s) \/ s[i] = NL THEN i ELSE LineEnd(s, i + 1)

\* The line starting at i holds nothing but blanks: skip_blank_lines drops it.
BlankLine(s, i) == \A k \in i..(LineEnd(s, i) - 1) : s[k] = SP

\* The C tokenizer of read_csv (delimiter ",", quotechar '"', doublequote,
\* skip_blank_lines): the rows of the text, each a sequence of fields, or
\* "EOF inside string" when the text ends inside a quoted field.
RECURSIVE Tokenize(_, _, _, _, _, _)
Tokenize(s, i, state, fld, row, rows) ==
  IF i > Len(s)
    THEN CASE state = "START_RECORD" -> [ok |-> TRUE, rows |-> rows]
           [] state = "IN_QUOTED_FIELD" -> [ok |-> FALSE, rows |-> <<>>]
           [] OTHER -> [ok |-> TRUE, rows |-> Append(rows, Append(row, fld))]
    ELSE LET c == s[i] IN
      CASE state = "START_RECORD" ->
             IF BlankLine(s, i)
               THEN Tokenize(s, LineEnd(s, i) + 1, "START_RECORD", <<>>, <<>>, rows)
               ELSE Tokenize(s, i, "START_FIELD", <<>>, <<>>, rows)
        [] state = "START_FIELD" ->
             IF c = NL
               THEN Tokenize(s, i + 1, "START_RECORD", <<>>, <<>>,
                             Append(rows, Append(row, fld)))
             ELSE IF c = Q
               THEN Tokenize(s, i + 1, "IN_QUOTED_FIELD", fld, row, rows)
             ELSE IF c = COMMA
               THEN Tokenize(s, i + 1, "START_FIELD", <<>>, Append(row, fld), rows)
             ELSE Tokenize(s, i + 1, "IN_FIELD", Append(fld, c), row, rows)
        [] state = "IN_FIELD" ->
             IF c = NL
               THEN Tokenize(s, i + 1, "START_RECORD", <<>>, <<>>,
                             Append(rows, Append(row, fld)))
             ELSE IF c = COMMA
               THEN Tokenize(s, i + 1, "START_FIELD", <<>>, Append(row, fld), rows)
             ELSE Tokenize(s, i + 1, "IN_FIELD", Append(fld, c), row, rows)
        [] state = "IN_QUOTED_FIELD" ->
             IF c = Q
               THEN Tokenize(s, i + 1, "QUOTE_IN_QUOTED_FIELD", fld, row, rows)
               ELSE Tokenize(s, i + 1, "IN_QUOTED_FIELD", Append(fld, c), row, rows)
        [] OTHER -> \* QUOTE_IN_QUOTED_FIELD
             IF c = NL
               THEN Tokenize(s, i + 1, "START_RECORD", <<>>, <<>>,
                             Append(rows, Append(row, fld)))
             ELSE IF c = COMMA
               THEN Tokenize(s, i + 1, "START_FIELD", <<>>, Append(row, fld), rows)
             ELSE IF c = Q
               THEN Tokenize(s, i + 1, "IN_QUOTED_FIELD", Append(fld, c), row, rows)
             ELSE Tokenize(s, i + 1, "IN_FIELD", Append(fld, c), row, rows)

\* A missing value of a DataFrame.
NaN == <<"NaN">>

\* A row of `width` values: an empty field reads as NaN (the default
\* na_values) and short rows are filled with NaN on the right.
PadRow(r, width) ==
  [k \in 1..width |-> IF k <= Len(r) /\ r[k] # <<>> THEN r[k] ELSE NaN]

\* The DataFrame read_csv builds from the tokenizer's result t.  The first
\* row is the header.  A data row with fewer fields than expected is filled with NaN; a
\* data row after the first with more fields than expected raises ParserError;
\* a longer first data row turns its leading fields into an index, which
\* to_markdown(index=False) and to_csv(index=False) drop.  No header check.
DataFrame(t) ==
  IF ~t.ok THEN [ok |-> FALSE, exc |-> "ParserError"]
  ELSE IF t.rows = <<>> THEN [ok |-> FALSE, exc |-> "EmptyDataError"]
  ELSE
    LET header == Head(t.rows)
        data == Tail(t.rows)
        first == IF data = <<>> THEN Len(header) ELSE Len(data[1])
        expected == Max(Len(header), first)
        leading == expected - Len(header)
    IN IF \E k \in 2..Len(data) : Len(data[k]) > expected
         THEN [ok |-> FALSE, exc |-> "ParserError"]
         ELSE [ok |-> TRUE,
               columns |-> header,
               rows |-> [k \in 1..Len(data) |->
                           SubSeq(PadRow(data[k], expected), leading + 1, expected)]]

\* df = pd.read_csv(io.StringIO(csv_data)) (line 109); the text is tokenized
\* once.
read_csv(csv_data) ==
  LET frames == {DataFrame(t) :
                   t \in {Tokenize(csv_data, 1, "START_RECORD", <<>>, <<>>, <<>>)}}
  IN CHOOSE d \in frames : TRUE

\* The records df.to_csv(filename, index=False) writes (line 113): the column
\* names, then the rows with NaN written as the empty field.
to_csv(df) ==
  [columns |-> df.columns,
   rows |-> [k \in 1..Len(df.rows) |->
               [j \in 1..Len(df.rows[k]) |->
                  IF df.rows[k][j] = NaN THEN <<>> ELSE df.rows[k][j]]]]

\* ------------------------------------------------------------ configuration

\* os.environ has no GEMINI_API_KEY.
EnvUnset == "<unset>"
Placeholder == "YOUR_GEMINI_API_KEY_HERE"
\* The default of os.environ.get on line 36: a key written into the script.
DefaultKey == "<key in the script>"
UserKey == "user-key"
Environments == {EnvUnset, Placeholder, UserKey}

\* os.environ.get("GEMINI_API_KEY", <default>)
environ_get(env) == IF env = EnvUnset THEN DefaultKey ELSE env

\* Lines 35-43: the value of GEMINI_API_KEY once the module is loaded;
\* `raises` says whether genai.configure raised.
ConfigureKey(env, raises) ==
  IF environ_get(env) # Placeholder /\ raises THEN "DISABLED" ELSE environ_get(env)

\* --------------------------------------------------------------- the inputs

\* None, as Gradio may pass for a field.
None == <<"None">>
Dev == <<"D">>
Py == <<"P">>
Jhb == <<"J">>

Criteria(t, s, l) == [job_title |-> t, skills |-> s, location |-> l]

\* The criteria of the sequential runs: every field filled in, each field in
\* turn None or empty, and one field made of blanks only.
AllCriteria ==
  {Criteria(Dev, Py, Jhb), Criteria(Dev, <<SP>>, Jhb)}
    \cup {Criteria(x, Py, Jhb) : x \in {None, <<>>}}
    \cup {Criteria(Dev, x, Jhb) : x \in {None, <<>>}}
    \cup {Criteria(Dev, Py, x) : x \in {None, <<>>}}

ConcCriteria == {Criteria(Dev, Py, Jhb), Criteria(Dev, Py, <<>>)}

\* One CSV line: the fields joined by commas.
RECURSIVE Row(_)
Row(fields) ==
  IF Len(fields) <= 1 THEN fields
  ELSE <<Head(fields), COMMA>> \o Row(Tail(fields))

\* The column names the prompt mandates (line 88), in order.
MandatedColumns == <<"N", "R", "L", "K", "P", "U">>
HeaderRow == Row(MandatedColumns)
\* The first field of RowA is quoted and holds a comma.
RowA == <<Q, "a", COMMA, "a", Q, COMMA>> \o Row(<<"b", "c", "d", "e", "f">>)
RowB == Row(<<"g", "h", "i", "j", "k", "l">>)

Fence == <<BT, BT, BT>>

\* A response of the provider: a CSV body, bare or between a leading and a
\* trailing fence line.
Response(lead, body, trail) ==
  [received |-> TRUE, lead |-> lead, body |-> body, trail |-> trail]

\* response.text
Text(r) ==
  (IF r.lead = <<>> THEN <<>> ELSE r.lead \o <<NL>>)
    \o r.body
    \o (IF r.trail = <<>> THEN <<>> ELSE <<NL>> \o r.trail)

Good1 == HeaderRow \o <<NL>> \o RowA
Good2 == HeaderRow \o <<NL>> \o RowA \o <<NL>> \o RowB \o <<NL>>
ShortHeader == Row(<<"N", "R", "L">>) \o <<NL>> \o Row(<<"a", "b", "c">>)
Reordered == Row(<<"R", "N", "L", "K", "P", "U">>) \o <<NL>> \o RowA
TruncatedRow == Good1 \o <<NL>> \o Row(<<"g", "h">>)
OpenQuote == Good1 \o <<NL>> \o <<Q, "g", COMMA, "h">>
LongRow == Good1 \o <<NL>> \o RowB \o <<COMMA, "m">>
LongFirstRow == HeaderRow \o <<NL>> \o RowA \o <<COMMA, "m">>

Bodies ==
  {Good1, ShortHeader, Reordered, TruncatedRow, OpenQuote, LongRow,
   LongFirstRow, <<>>}

AllResponses ==
  {Response(<<>>, b, <<>>) : b \in Bodies}
    \cup {Response(FenceCsv, Good1, Fence),
          Response(Fence, Good1, Fence),
          Response(FenceCsv, Good1, <<>>)}

ConcResponses ==
  {Response(<<>>, Good1, <<>>), Response(<<>>, Good2, <<>>),
   Response(<<>>, LongRow, <<>>)}

\* ------------------------------------------------------------------- state

VARIABLES
  envKey,          \* the environment's GEMINI_API_KEY when the process started
  GEMINI_API_KEY,  \* the module-level global
  now,             \* the wall clock, in ticks
  files,           \* the working directory: filename -> file
  pc,              \* each invocation's position in generate_candidates
  args,            \* each invocation's (job_title, skills, location)
  response,        \* what the provider answered the invocation
  csv_data,
  timestamp,
  filename,
  df,
  result,          \* the (message, file path) pair the invocation returned
  calls            \* the generate_content calls the invocation has issued

vars ==
  <<envKey, GEMINI_API_KEY, now, files, pc, args, response, csv_data,
    timestamp, filename, df, result, calls>>

NoFile == <<>>
NoArgs == Criteria(<<>>, <<>>, <<>>)
NoResponse == [received |-> FALSE, lead |-> <<>>, body |-> <<>>, trail |-> <<>>]
NoDf == [ok |-> FALSE, exc |-> "none"]
NoTable == [columns |-> <<>>, rows |-> <<>>]

Message(kind, detail, t, l, table) ==
  [kind |-> kind, detail |-> detail, job_title |-> t, location |-> l,
   table |-> table]

NoResult == [message |-> Message("none", "", <<>>, <<>>, NoTable), file |-> NoFile]
\* Line 64.
MissingInput ==
  [message |-> Message("MissingInput", "", <<>>, <<>>, NoTable), file |-> NoFile]
\* Line 67.
Unconfigured ==
  [message |-> Message("Unconfigured", "", <<>>, <<>>, NoTable), file |-> NoFile]
\* Lines 120-121.
ErrorResult(e) ==
  [message |-> Message("Error", e, <<>>, <<>>, NoTable), file |-> NoFile]
\* Lines 116-117; the table is df.to_markdown(index=False) of line 110.
Results(a, d, f) ==
  [message |-> Message("Results", "", a.job_title, a.location,
                       [columns |-> d.columns, rows |-> d.rows]),
   file |-> f]

\* datetime.datetime.now().strftime("%Y%m%d_%H%M%S"): the clock cut to the
\* second (line 105).
strftime(t) == t \div TicksPerSecond

\* A filename without the timestamp.
FilenameNoStamp(ts) == <<"candidate_search_", 0, ".csv">>

\* Line 106.
Filename(ts) == <<"candidate_search_", ts, ".csv">>

Filenames == {Filename(strftime(t)) : t \in 0..MaxTick}

\* A file of the directory: its lines and, as history, the invocation
\* that opened or wrote it last, whether that write finished, and whether it
\* was opened while another invocation had it open.
Absent ==
  [exists |-> FALSE, lines |-> <<>>, writer |-> 0, complete |-> FALSE,
   shared |-> FALSE]

\* The lines of a CSV file holding the records c.
FileLines(c) == <<c.columns>> \o c.rows

Init ==
  /\ envKey \in Environments
  /\ \E raises \in BOOLEAN : GEMINI_API_KEY = ConfigureKey(envKey, raises)
  /\ now = 0
  /\ files = [f \in Filenames |-> Absent]
  /\ pc = [i \in Invocations |-> "idle"]
  /\ args = [i \in Invocations |-> NoArgs]
  /\ response = [i \in Invocations |-> NoResponse]
  /\ csv_data = [i \in Invocations |-> <<>>]
  /\ timestamp = [i \in Invocations |-> 0]
  /\ filename = [i \in Invocations |-> NoFile]
  /\ df = [i \in Invocations |-> NoDf]
  /\ result = [i \in Invocations |-> NoResult]
  /\ calls = [i \in Invocations |-> 0]

\* ------------------------------------------------------------ the handler

\* bool(v) of a field: None and "" are falsy.
Truthy(v) == v # None /\ v # <<>>

\* any([...]) in place of all([...]).
AnyFilled(a) == Truthy(a.job_title) \/ Truthy(a.skills) \/ Truthy(a.location)

\* all([job_title, skills, location]) (line 63)
AllFilled(a) == Truthy(a.job_title) /\ Truthy(a.skills) /\ Truthy(a.location)

\* `return message, path`: the handler ends with this result.
Finish(i, r) ==
  /\ pc' = [pc EXCEPT ![i] = "done"]
  /\ result' = [result EXCEPT ![i] = r]

\* An except clause that calls the provider again when the call failed.
ExceptRetry(i, e) ==
  IF e = "GenerationFailure"
    THEN pc' = [pc EXCEPT ![i] = "api"] /\ UNCHANGED result
    ELSE Finish(i, ErrorResult(e))

\* `except ValueError`: only the parser's errors are caught, the rest leave
\* the handler.
ExceptValueError(i, e) ==
  IF e \in {"ParserError", "EmptyDataError"}
    THEN Finish(i, ErrorResult(e))
    ELSE pc' = [pc EXCEPT ![i] = "fault"] /\ UNCHANGED result

\* Lines 119-121: `except Exception as e` returns the error message and None.
Except(i, e) == Finish(i, ErrorResult(e))

\* The bytes `new` written at offset 0 of a file holding `old`.
Overlay(old, new) ==
  IF Len(new) >= Len(old) THEN new
  ELSE new \o SubSeq(old, Len(new) + 1, Len(old))

\* The UI invokes generate_candidates(job_title, skills, location).  The
\* invocations are numbered in the order they arrive; under `sequential` one
\* starts only when the ones before it have returned.
Call(i, criteria, sequential) ==
  /\ pc[i] = "idle"
  /\ \A j \in 1..(i - 1) : pc[j] # "idle" /\ (sequential => pc[j] = "returned")
  /\ \E a \in criteria : args' = [args EXCEPT ![i] = a]
  /\ pc' = [pc EXCEPT ![i] = "validate"]
  /\ UNCHANGED <<envKey, GEMINI_API_KEY, now, files, response, csv_data,
                 timestamp, filename, df, result, calls>>

\* Lines 63-64.
Validate(i) ==
  /\ pc[i] = "validate"
  /\ IF ~AllFilled(args[i])
       THEN Finish(i, MissingInput)
       ELSE pc' = [pc EXCEPT ![i] = "credential"] /\ UNCHANGED result
  /\ UNCHANGED <<envKey, GEMINI_API_KEY, now, files, args, response, csv_data,
                 timestamp, filename, df, calls>>

\* A check that knows the placeholder only.
IsPlaceholder(key) == key = Placeholder

\* GEMINI_API_KEY in ["YOUR_GEMINI_API_KEY_HERE", "DISABLED"] (line 66)
KeyNotConfigured(key) == key \in {Placeholder, "DISABLED"}

\* Lines 66-67; the prompt of lines 70-90 is built on the way to the call.
CheckKey(i) ==
  /\ pc[i] = "credential"
  /\ IF KeyNotConfigured(GEMINI_API_KEY)
       THEN Finish(i, Unconfigured)
       ELSE pc' = [pc EXCEPT ![i] = "api"] /\ UNCHANGED result
  /\ UNCHANGED <<envKey, GEMINI_API_KEY, now, files, args, response, csv_data,
                 timestamp, filename, df, calls>>

\* Lines 95-97: model.generate_content(prompt) and response.text; either may
\* raise.
CallApi(i, responses) ==
  /\ pc[i] = "api"
  /\ calls' = [calls EXCEPT ![i] = @ + 1]
  /\ \/ \E r \in responses :
          /\ response' = [response EXCEPT ![i] = r]
          /\ csv_data' = [csv_data EXCEPT ![i] = Text(r)]
          /\ pc' = [pc EXCEPT ![i] = "clean"]
          /\ UNCHANGED result
     \/ /\ Except(i, "GenerationFailure")
        /\ UNCHANGED <<response, csv_data>>
  /\ UNCHANGED <<envKey, GEMINI_API_KEY, now, files, args, timestamp, filename, df>>

\* Lines 101-106: the cleanup, the timestamp and the filename.
CleanStep(i) ==
  /\ pc[i] = "clean"
  /\ csv_data' = [csv_data EXCEPT ![i] = Clean(@)]
  /\ timestamp' = [timestamp EXCEPT ![i] = strftime(now)]
  /\ filename' = [filename EXCEPT ![i] = Filename(strftime(now))]
  /\ pc' = [pc EXCEPT ![i] = "parse"]
  /\ UNCHANGED <<envKey, GEMINI_API_KEY, now, files, args, response, df, result, calls>>

\* Line 109.
Parse(i) ==
  /\ pc[i] = "parse"
  /\ LET d == read_csv(csv_data[i]) IN
       IF d.ok
         THEN /\ df' = [df EXCEPT ![i] = d]
              /\ pc' = [pc EXCEPT ![i] = "render"]
              /\ UNCHANGED result
         ELSE Except(i, d.exc) /\ UNCHANGED df
  /\ UNCHANGED <<envKey, GEMINI_API_KEY, now, files, args, response, csv_data,
                 timestamp, filename, calls>>

\* Line 110: df.to_markdown needs the tabulate package and raises ImportError
\* without it.
Render(i) ==
  /\ pc[i] = "render"
  /\ \/ pc' = [pc EXCEPT ![i] = "open"] /\ UNCHANGED result
     \/ Except(i, "ImportError")
  /\ UNCHANGED <<envKey, GEMINI_API_KEY, now, files, args, response, csv_data,
                 timestamp, filename, df, calls>>

\* Line 113, first half: to_csv opens the file for writing, which creates or
\* truncates it, or raises OSError.
OpenFile(i) ==
  /\ pc[i] = "open"
  /\ \/ /\ files' = [files EXCEPT ![filename[i]] =
                       [exists |-> TRUE, lines |-> <<>>, writer |-> i,
                        complete |-> FALSE,
                        shared |-> \E j \in Invocations \ {i} :
                                     pc[j] = "write" /\ filename[j] = filename[i]]]
        /\ pc' = [pc EXCEPT ![i] = "write"]
        /\ UNCHANGED result
     \/ Except(i, "OSError") /\ UNCHANGED files
  /\ UNCHANGED <<envKey, GEMINI_API_KEY, now, args, response, csv_data,
                 timestamp, filename, df, calls>>

\* Line 113, second half, and lines 116-117: the records are written from the
\* start of the file and the handle is closed; a write that raises leaves the
\* lines written so far.
WriteFile(i) ==
  /\ pc[i] = "write"
  /\ LET own == FileLines(to_csv(df[i])) IN
       \/ /\ files' = [files EXCEPT ![filename[i]] =
                         [@ EXCEPT !.lines = Overlay(@, own), !.writer = i,
                                   !.complete = TRUE]]
          /\ Finish(i, Results(args[i], df[i], filename[i]))
       \/ \E n \in 0..(Len(own) - 1) :
            /\ files' = [files EXCEPT ![filename[i]] =
                           [@ EXCEPT !.lines = Overlay(@, SubSeq(own, 1, n)),
                                     !.writer = i, !.complete = FALSE]]
            /\ Except(i, "OSError")
  /\ UNCHANGED <<envKey, GEMINI_API_KEY, now, args, response, csv_data,
                 timestamp, filename, df, calls>>

\* The pair is handed to the UI and the locals of the invocation are gone.
Return(i) ==
  /\ pc[i] = "done"
  /\ pc' = [pc EXCEPT ![i] = "returned"]
  /\ args' = [args EXCEPT ![i] = NoArgs]
  /\ response' = [response EXCEPT ![i] = NoResponse]
  /\ csv_data' = [csv_data EXCEPT ![i] = <<>>]
  /\ df' = [df EXCEPT ![i] = NoDf]
  /\ timestamp' = [timestamp EXCEPT ![i] = 0]
  /\ filename' = [filename EXCEPT ![i] = NoFile]
  /\ result' = [result EXCEPT ![i] = NoResult]
  /\ calls' = [calls EXCEPT ![i] = 0]
  /\ UNCHANGED <<envKey, GEMINI_API_KEY, now, files>>

\* The wall clock advances.
Tick ==
  /\ now < MaxTick
  /\ now' = now + 1
  /\ UNCHANGED <<envKey, GEMINI_API_KEY, files, pc, args, response, csv_data,
                 timestamp, filename, df, result, calls>>

\* The steps of invocation i once it is called.
Step(i, responses) ==
  \/ Validate(i)
  \/ CheckKey(i)
  \/ CallApi(i, responses)
  \/ CleanStep(i)
  \/ Parse(i)
  \/ Render(i)
  \/ OpenFile(i)
  \/ WriteFile(i)
  \/ Return(i)

\* One invocation at a time (Gradio's queue with its default concurrency of
\* one per event), over every input.
Next ==
  \/ Tick
  \/ \E i \in Invocations : Call(i, AllCriteria, TRUE)
  \/ \E i \in Invocations : Step(i, AllResponses)

Spec == Init /\ [][Next]_vars

\* The invocation being served keeps running: its thread is scheduled, and
\* the blocking calls it makes return or raise.
FairSpec == Spec /\ WF_vars(\E i \in Invocations : Step(i, AllResponses))

\* Invocations served by concurrent worker threads.
NextConc ==
  \/ Tick
  \/ \E i \in Invocations : Call(i, ConcCriteria, FALSE)
  \/ \E i \in Invocations : Step(i, ConcResponses)

ConcSpec == Init /\ [][NextConc]_vars

\* ------------------------------------------------------------ the claims

Done(i) == pc[i] = "done"
Running(i) == pc[i] \notin {"idle", "returned"}
IsError(r) == r.message.kind \in {"MissingInput", "Unconfigured", "Error"}

\* The directory holds a file that invocation i created or wrote last.
LeftFile(i) == \E f \in Filenames : files[f].exists /\ files[f].writer = i

\* The column names as read_csv returns them.
SixColumns == [k \in 1..Len(MandatedColumns) |-> <<MandatedColumns[k]>>]

\* One of the three fields is None or the empty string.
SomeFieldMissing(a) ==
  \E v \in {a.job_title, a.skills, a.location} : v = None \/ v = <<>>

\* C1: an invocation with an empty or absent field issues no generation call,
\* goes no further than the validation, and returns the missing-input message
\* with no file path.
C1_MissingInput ==
  \A i \in Invocations :
    Running(i) /\ SomeFieldMissing(args[i]) =>
      /\ calls[i] = 0
      /\ pc[i] \in {"validate", "done"}
      /\ Done(i) => result[i] = MissingInput

\* C1's case: a usable key is configured and an invocation with a missing
\* field has returned.
C1_Witness ==
  \E i \in Invocations :
    /\ Done(i)
    /\ args[i].skills = None
    /\ GEMINI_API_KEY = DefaultKey
    /\ result[i] = MissingInput

\* C2 as stated: started without GEMINI_API_KEY in the environment, every
\* invocation returns the Unconfigured error and issues no generation call.
C2_UnsetIsUnconfigured ==
  \A i \in Invocations :
    envKey = EnvUnset =>
      /\ calls[i] = 0
      /\ Done(i) => result[i] = Unconfigured

\* C2 as amended: the key is unusable when the environment holds the
\* placeholder or genai.configure raised, and never merely because the
\* variable is absent; with an unusable key an invocation whose fields are all
\* filled in issues no generation call, goes no further than the key check
\* and returns the Unconfigured error.
C2_Unconfigured ==
  /\ envKey = Placeholder => GEMINI_API_KEY = Placeholder
  /\ envKey = EnvUnset => GEMINI_API_KEY \in {DefaultKey, "DISABLED"}
  /\ \A i \in Invocations :
       /\ Running(i)
       /\ ~SomeFieldMissing(args[i])
       /\ GEMINI_API_KEY \in {Placeholder, "DISABLED"}
       => /\ calls[i] = 0
          /\ pc[i] \in {"validate", "credential", "done"}
          /\ Done(i) => result[i] = Unconfigured

\* C2's case: configuring the client raised, and an invocation with every
\* field filled in has returned.
C2_Witness ==
  \E i \in Invocations :
    /\ Done(i)
    /\ ~SomeFieldMissing(args[i])
    /\ GEMINI_API_KEY = "DISABLED"
    /\ result[i] = Unconfigured

\* A present field that is empty once trimmed.
OnlyBlanks(v) == v # None /\ v # <<>> /\ Strip(v) = <<>>

\* C3: an invocation with a field made of whitespace only is rejected as
\* MissingInput and never reaches the prompt or the generation call.
C3_BlankIsMissing ==
  \A i \in Invocations :
    Running(i) /\ (\E v \in {args[i].job_title, args[i].skills, args[i].location} :
                     OnlyBlanks(v)) =>
      /\ calls[i] = 0
      /\ pc[i] \in {"validate", "done"}
      /\ Done(i) => result[i] = MissingInput

\* A CSV body with the six mandated columns in its header and six fields in
\* every row, none cut off inside a quoted field.
WellFormed(body) ==
  LET t == Tokenize(body, 1, "START_RECORD", <<>>, <<>>, <<>>) IN
    /\ t.ok
    /\ t.rows # <<>>
    /\ Head(t.rows) = SixColumns
    /\ \A k \in 1..Len(t.rows) : Len(t.rows[k]) = Len(MandatedColumns)

\* C4: an invocation whose response is malformed returns an error with no
\* file path and has written no file.
C4_MalformedIsRejected ==
  \A i \in Invocations :
    Done(i) /\ response[i].received /\ ~WellFormed(response[i].body) =>
      /\ result[i].message.kind = "Error"
      /\ result[i].file = NoFile
      /\ ~LeftFile(i)

\* C5: a finished invocation either returns the table with the path of a
\* completely written file, or returns an error with no path and has left no
\* file behind.
C5_NoPartialResults ==
  \A i \in Invocations :
    Done(i) =>
      \/ /\ result[i].message.kind = "Results"
         /\ result[i].file \in Filenames
         /\ files[result[i].file].exists
         /\ files[result[i].file].complete
         /\ files[result[i].file].lines = FileLines(to_csv(df[i]))
      \/ /\ IsError(result[i])
         /\ result[i].file = NoFile
         /\ ~LeftFile(i)

EndsWith(s, p) == Len(s) >= Len(p) /\ SubSeq(s, Len(s) - Len(p) + 1, Len(s)) = p

\* C6: the text handed to the parser is the body of a fenced response, the
\* whole of an unfenced one, and keeps the end of the body when only the
\* leading fence is there.
C6_Cleanup ==
  \A i \in Invocations :
    pc[i] = "parse" =>
      LET r == response[i] IN
        /\ r.lead # <<>> /\ r.trail # <<>> => csv_data[i] = Strip(r.body)
        /\ r.lead # <<>> /\ r.trail = <<>> => EndsWith(csv_data[i], Strip(r.body))
        /\ r.lead = <<>> /\ r.trail = <<>> => csv_data[i] = Text(r)

\* The generation call of invocation i was issued and gave no response.
CallFailed(i) ==
  pc[i] \notin {"api", "returned"} /\ calls[i] >= 1 /\ ~response[i].received

\* C7: an invocation issues at most one generation call, and when that call
\* fails it ends with an error, no file path and no file, without a second
\* call.
C7_NoRetry ==
  \A i \in Invocations :
    /\ calls[i] <= 1
    /\ CallFailed(i) =>
         /\ Done(i)
         /\ IsError(result[i])
         /\ result[i].file = NoFile
         /\ ~LeftFile(i)

\* C7's case: the one call of an invocation failed and it has returned the
\* error.
C7_Witness ==
  \E i \in Invocations :
    /\ Done(i)
    /\ calls[i] = 1
    /\ ~response[i].received
    /\ result[i] = ErrorResult("GenerationFailure")

\* C9: a successful invocation renders and writes exactly the six mandated
\* columns, in order.
C9_SixColumns ==
  \A i \in Invocations :
    Done(i) /\ result[i].message.kind = "Results" =>
      /\ result[i].message.table.columns = SixColumns
      /\ files[result[i].file].lines[1] = SixColumns

Succeeded(i) == Done(i) /\ result[i].message.kind = "Results"

\* The lines invocation i writes to its file.
OwnLines(i) == FileLines(to_csv(df[i]))

\* C8 as stated: two successful invocations stamped in different seconds
\* have distinct paths and each file holds its own request's records; two
\* stamped in the same second share the path, and the file holds the records
\* of the one that wrote last.
C8_LaterReplacesEarlier ==
  \A i, j \in Invocations :
    i # j /\ Succeeded(i) /\ Succeeded(j) =>
      IF timestamp[i] # timestamp[j]
        THEN /\ result[i].file # result[j].file
             /\ files[result[i].file].lines = OwnLines(i)
             /\ files[result[j].file].lines = OwnLines(j)
        ELSE /\ result[i].file = result[j].file
             /\ files[result[i].file].writer = j =>
                  files[result[i].file].lines = OwnLines(j)

\* C8 as amended: two successful invocations stamped in different seconds
\* have distinct paths and neither wrote the other's file; two stamped in the
\* same second share the path; and the file of a successful invocation that
\* wrote it last holds that invocation's records unless the file was opened
\* while another invocation had it open.
C8_Collisions ==
  \A i, j \in Invocations :
    i # j /\ Succeeded(i) /\ Succeeded(j) =>
      LET f == files[result[i].file] IN
        /\ result[i].file = Filename(timestamp[i])
        /\ f.exists
        /\ IF timestamp[i] # timestamp[j]
             THEN result[i].file # result[j].file /\ f.writer # j
             ELSE result[i].file = result[j].file
        /\ f.writer = i => f.complete
        /\ f.writer = i /\ ~f.shared => f.lines = OwnLines(i)

\* C8's case: two successful invocations of one second had the file open
\* together, and the file holds more than the records of the last writer.
C8_Witness ==
  \E i, j \in Invocations :
    /\ i # j /\ Succeeded(i) /\ Succeeded(j)
    /\ timestamp[i] = timestamp[j]
    /\ files[result[i].file].writer = j
    /\ files[result[i].file].shared
    /\ files[result[i].file].lines # OwnLines(j)
    /\ files[result[i].file].lines = OwnLines(i)

\* What the handler returns: an error message with None, or the table with
\* the path of the file.
ReturnsPair(i) ==
  \/ IsError(result[i]) /\ result[i].file = NoFile
  \/ result[i].message.kind = "Results" /\ result[i].file \in Filenames

\* C10: every invocation that has started returns a (message, path or None)
\* pair, whatever failed on the way, and the next invocation can then start.
C10_AlwaysReturns ==
  /\ \A i \in Invocations : (pc[i] = "validate") ~> Done(i)
  /\ [](\A i \in Invocations : Done(i) => ReturnsPair(i))
  /\ [](\A i \in Invocations \ {1} :
          pc[i] = "idle" /\ pc[i - 1] = "returned" =>
            ENABLED Call(i, AllCriteria, TRUE))

\* C10's case: an invocation failed while writing its file, and the next
\* one has returned its table.
C10_Witness ==
  \E i \in Invocations \ {1} :
    /\ Succeeded(i)
    /\ \E f \in Filenames :
         files[f].exists /\ files[f].writer = i - 1 /\ ~files[f].complete

====
